---- MODULE Spec2Model ----
(***************************************************************************)
(* Verification model of lumenpdf-studio's Tauri back end.                 *)
(*                                                                         *)
(*   SpecExport  sign.rs      sign_and_export_pdf: the export transaction  *)
(*               (EXPORT_LOCK, progress events, atomic_write_all).         *)
(*   SpecOps     merge.rs /   merge and compress: parent directory, input  *)
(*               compress.rs  staging, output/input collision check, the   *)
(*               qpdf and Ghostscript runs, work-directory cleanup.        *)
(***************************************************************************)
EXTENDS Integers, Sequences, FiniteSets, TLC

VARIABLES
  \* ---- sign.rs ----
  xpc,        \* position of every sign_and_export_pdf call
  lock,       \* EXPORT_LOCK: 0 when free, else the call holding the guard
  progress,   \* events emitted on "sign:progress", in emission order
  files,      \* destination files: their content
  overwrite,  \* the local `overwrite` of every call
  bytes,      \* the local `bytes` of every call (decoded payload)
  target,     \* payload.target_path of every call
  out_path,   \* the local `out_path` of every call
  result,     \* what every call returned (or is about to return)
  fsops,      \* filesystem operations every call performed, in order
  \* ---- merge.rs, compress.rs, split.rs ----
  opc,        \* position of the merge, compress or split_pdf call
  req,        \* its arguments
  disk,       \* the files that exist (what canonicalize reads)
  work,       \* its work directory: "none", "created" or "removed"
  in_paths,   \* the paths of the staged inputs
  toolres,    \* what run_qpdf / run_path returned
  ret,        \* what the call returned
  outputs,    \* split_pdf: the local `outputs`
  trace,      \* its directory creations, staged writes, tool lookups,
              \* process runs and removals, in order
  \* ---- compress.rs: find_gs ----
  gs_layout,  \* what is installed under the two ghostscript roots
  gs_found,   \* what find_gs returned
  \* ---- compress.rs: find_qpdf ----
  qpdf_layout, \* what is installed under the two binaries roots
  qpdf_found, \* what find_qpdf returned
  \* ---- merge.rs, compress.rs: concurrent in-memory calls ----
  clock,      \* SystemTime::now(), in milliseconds
  stg,        \* position, kind and work directory of every call
  wdirs       \* the work directories that exist, with the call whose staged
              \* input lies in each

exportVars == <<xpc, lock, progress, files, overwrite, bytes, target, out_path, result, fsops>>
opsVars == <<opc, req, disk, work, in_paths, toolres, ret, outputs, trace>>

locateVars == <<gs_layout, gs_found, qpdf_layout, qpdf_found>>
stagingVars == <<clock, stg, wdirs>>

vars == <<exportVars, opsVars, locateVars, stagingVars>>

(***************************************************************************)
(* Bounds: concurrent export calls, sources of one merge, ranges of one    *)
(* split, entries of one ghostscript root, clock readings                  *)
(***************************************************************************)
NumCalls == 2
MaxSources == 2
MaxRanges == 2
MaxEntries == 1
MaxClock == 2

Calls == 1..NumCalls

(***************************************************************************)
(* sign.rs: payloads                                                       *)
(***************************************************************************)
\* validate_pdf's numbers
MinPdfLen == 8
TailWindow == 4096
TrailerLen == 5

\* Byte strings are abstracted to what validate_pdf and the write path read:
\* the length, whether "%PDF-" is a prefix, and the offset of the last
\* occurrence of "%%EOF" (-1: none). id tells the payloads of different
\* calls apart (0: no bytes).
NoBytes == [id |-> 0, len |-> 0, head |-> FALSE, eof |-> -1]

ByteShapes ==
  { [len |-> 5000, head |-> TRUE,  eof |-> 904],    \* header, trailer first in the tail window
    [len |-> 7,    head |-> TRUE,  eof |-> -1],     \* too short
    [len |-> 5000, head |-> FALSE, eof |-> 4995],   \* no header
    [len |-> 5000, head |-> TRUE,  eof |-> -1],     \* no trailer
    [len |-> 5000, head |-> TRUE,  eof |-> 903] }   \* trailer cut by the tail window

BytesOf(p) == { [id |-> p, len |-> s.len, head |-> s.head, eof |-> s.eof] : s \in ByteShapes }

\* pdf_bytes_b64: a string that is the base64 of some bytes, or one that is not
\* base64 at all.
B64Of(p) == { [wellformed |-> TRUE, encodes |-> b] : b \in BytesOf(p) }
              \cup { [wellformed |-> FALSE, encodes |-> NoBytes] }

decode_b64(s) == IF s.wellformed THEN [ok |-> TRUE, bytes |-> s.encodes]
                 ELSE [ok |-> FALSE, bytes |-> NoBytes]

Max(a, b) == IF a >= b THEN a ELSE b

\* Mutant: only the header is checked.
validate_pdf_HeaderOnly(b) ==
  IF b.len < MinPdfLen THEN FALSE ELSE b.head

validate_pdf(b) ==
  IF b.len < MinPdfLen THEN FALSE
  ELSE LET head_ok == b.head
           tail_slice_start == Max(b.len - TailWindow, 0)
           tail_ok == b.eof >= tail_slice_start /\ b.eof + TrailerLen <= b.len
       IN  ~(~head_ok \/ ~tail_ok)

\* Mutant: the digest is taken over the transport text, not the decoded bytes.
hex_sha256_OfTransport(b) == <<"sha256", b.id, 4 * ((b.len + 2) \div 3)>>

hex_sha256(b) == <<"sha256", b.id, b.len>>

(***************************************************************************)
(* sign.rs: paths and files                                                *)
(***************************************************************************)
\* "F": a file name in an existing directory; "G": a file name in a directory
\* that does not exist; "/": the root (no parent, exists); "": the empty path.
NoPath == "<unset>"
ExportPaths == {"F", "G", "/", ""}
DataFiles == {"F", "G"}

HasParent(path) == path \in {"F", "G"}
ParentExists(path) == path = "F"

\* File content: who wrote it (0: it was there before any call, -1: no file)
\* and how many bytes it holds.
Absent == [src |-> -1, len |-> 0]
Old == [src |-> 0, len |-> 3]

ContentOf(b, n) == [src |-> b.id, len |-> n]

path_exists(fs, path) ==
  IF path \in DataFiles THEN fs[path] # Absent ELSE path = "/"

\* Mutant: the overwrite flag read the wrong way round.
conflict_Inverted(ow, fs, path) == ow /\ path_exists(fs, path)

\* !overwrite && path.exists(): the conflict check, made before the Write
\* event and again inside atomic_write_all.
conflict(ow, fs, path) == ~ow /\ path_exists(fs, path)

IoKinds == {"PermissionDenied", "NotFound", "AlreadyExists", "Other"}
IoSteps == {"create", "write", "remove", "rename"}
NoIoError == [at |-> "never", kind |-> "Other"]
IoErrors == { [at |-> s, kind |-> k] : s \in IoSteps, k \in IoKinds } \cup {NoIoError}

map_io(kind) ==
  CASE kind = "PermissionDenied" -> "E_PERMISSION"
    [] kind = "NotFound"         -> "E_PERMISSION"
    [] kind = "AlreadyExists"    -> "E_EXISTS"
    [] OTHER                     -> "E_IO"

\* Mutant: the bytes are written straight into the destination.
WriteTarget_Destination(path) == path

\* Where write_all puts the bytes: the NamedTempFile, never the destination.
WriteTarget(path) == "tmp"

AwFail(fs, code, ops) == [fs |-> fs, code |-> code, n |-> 0, ops |-> ops]

\* atomic_write_all under the I/O error io (the step that fails, if any).
\* A NamedTempFile that is not persisted is deleted when it is dropped.
atomic_write_all(fs, path, data, ow, io) ==
  IF ~HasParent(path) THEN AwFail(fs, "E_INVALID_ARG", <<>>)
  ELSE IF ~ParentExists(path) THEN AwFail(fs, "E_PERMISSION", <<>>)
  ELSE IF conflict(ow, fs, path) THEN AwFail(fs, "E_EXISTS", <<>>)
  ELSE IF io.at = "create" THEN AwFail(fs, map_io(io.kind), <<>>)
  ELSE LET direct == WriteTarget(path) # "tmp"
           created == <<"create_tmp">>
       IN
       IF io.at = "write"
       THEN AwFail(IF direct THEN [fs EXCEPT ![path] = ContentOf(data, 0)] ELSE fs,
                   map_io(io.kind), created \o <<"write", "drop_tmp">>)
       ELSE LET fs1 == IF direct THEN [fs EXCEPT ![path] = ContentOf(data, data.len)] ELSE fs
                written == created \o <<"write">>
                removing == ow /\ path_exists(fs1, path)
            IN
            IF removing /\ io.at = "remove"
            THEN AwFail(fs1, map_io(io.kind), written \o <<"drop_tmp">>)
            ELSE LET fs2 == IF removing THEN [fs1 EXCEPT ![path] = Absent] ELSE fs1
                     ops2 == IF removing THEN written \o <<"remove">> ELSE written
                 IN
                 IF io.at = "rename"
                 THEN AwFail(fs2, map_io(io.kind), ops2 \o <<"drop_tmp">>)
                 ELSE [fs |-> [fs2 EXCEPT ![path] = ContentOf(data, data.len)],
                       code |-> "OK", n |-> data.len, ops |-> ops2 \o <<"rename">>]

(***************************************************************************)
(* sign.rs: progress events and results                                    *)
(***************************************************************************)
ErrorCodes == {"E_CANCELLED", "E_INVALID_PDF", "E_INVALID_ARG", "E_EXISTS",
               "E_PERMISSION", "E_IO", "E_UNKNOWN"}

Event(p, phase, code) == [call |-> p, phase |-> phase, code |-> code]

\* Mutant: the Write event is not emitted.
emit_progress_NoWrite(log, p, phase) ==
  IF phase = "write" THEN log ELSE Append(log, Event(p, phase, "-"))

emit_progress(log, p, phase) == Append(log, Event(p, phase, "-"))

\* Mutant: the cancelled exit reports Done.
emit_error_CancelAsDone(log, p, code) ==
  IF code = "E_CANCELLED" THEN Append(log, Event(p, "done", "-"))
  ELSE Append(log, Event(p, "error", code))

\* Mutant: the cancelled exit returns without emitting its error.
emit_error_NotOnCancel(log, p, code) ==
  IF code = "E_CANCELLED" THEN log ELSE Append(log, Event(p, "error", code))

emit_error(log, p, code) == Append(log, Event(p, "error", code))

NoResult == [ok |-> FALSE, code |-> "-", path |-> NoPath, bytes_written |-> 0,
             sha256 |-> <<"sha256", 0, 0>>]
err(code) == [NoResult EXCEPT !.code = code]

\* payload.overwrite: Option<bool>, read with unwrap_or(false)
OverwriteFlags == {"absent", "false", "true"}
unwrap_or_false(o) == o = "true"

\* Mutant: lock() that never waits.
LockAvailable_NoWait(l) == TRUE

\* EXPORT_LOCK.lock().await completes only when no guard is alive.
LockAvailable(l) == l = 0

(***************************************************************************)
(* sign.rs: sign_and_export_pdf                                            *)
(***************************************************************************)
ExportIdle ==
  /\ xpc = [p \in Calls |-> "idle"]
  /\ lock = 0
  /\ progress = <<>>
  /\ files = [f \in DataFiles |-> Absent]
  /\ overwrite = [p \in Calls |-> FALSE]
  /\ bytes = [p \in Calls |-> NoBytes]
  /\ target = [p \in Calls |-> NoPath]
  /\ out_path = [p \in Calls |-> NoPath]
  /\ result = [p \in Calls |-> NoResult]
  /\ fsops = [p \in Calls |-> <<>>]

\* No call yet; the destination is absent or holds an older file.
ExportStart ==
  /\ xpc = [p \in Calls |-> "idle"]
  /\ lock = 0
  /\ progress = <<>>
  /\ files \in { [f \in DataFiles |-> IF f = "F" THEN c ELSE Absent] : c \in {Absent, Old} }
  /\ overwrite = [p \in Calls |-> FALSE]
  /\ bytes = [p \in Calls |-> NoBytes]
  /\ target = [p \in Calls |-> NoPath]
  /\ out_path = [p \in Calls |-> NoPath]
  /\ result = [p \in Calls |-> NoResult]
  /\ fsops = [p \in Calls |-> <<>>]

\* The front end invokes the command; the call waits for EXPORT_LOCK.
Invoke(p) ==
  /\ xpc[p] = "idle"
  /\ xpc' = [xpc EXCEPT ![p] = "waiting"]
  /\ UNCHANGED <<lock, progress, files, overwrite, bytes, target, out_path, result, fsops>>
  /\ UNCHANGED <<opsVars, locateVars, stagingVars>>

\* let _guard = EXPORT_LOCK.lock().await;
Acquire(p) ==
  /\ xpc[p] = "waiting"
  /\ LockAvailable(lock)
  /\ lock' = p
  /\ xpc' = [xpc EXCEPT ![p] = "locked"]
  /\ UNCHANGED <<progress, files, overwrite, bytes, target, out_path, result, fsops>>
  /\ UNCHANGED <<opsVars, locateVars, stagingVars>>

\* emit Prepare; 1) decode + validate
Prepare(p) ==
  /\ xpc[p] = "locked"
  /\ \E s \in B64Of(p), ow \in OverwriteFlags :
       LET log1 == emit_progress(progress, p, "prepare")
           d == decode_b64(s)
       IN
       /\ overwrite' = [overwrite EXCEPT ![p] = unwrap_or_false(ow)]
       /\ IF ~d.ok
          THEN /\ progress' = emit_error(log1, p, "E_INVALID_ARG")
               /\ result' = [result EXCEPT ![p] = err("E_INVALID_ARG")]
               /\ xpc' = [xpc EXCEPT ![p] = "emitted"]
               /\ UNCHANGED bytes
          ELSE /\ bytes' = [bytes EXCEPT ![p] = d.bytes]
               /\ IF ~validate_pdf(d.bytes)
                  THEN /\ progress' = emit_error(log1, p, "E_INVALID_PDF")
                       /\ result' = [result EXCEPT ![p] = err("E_INVALID_PDF")]
                       /\ xpc' = [xpc EXCEPT ![p] = "emitted"]
                  ELSE /\ progress' = log1
                       /\ xpc' = [xpc EXCEPT ![p] = "resolving"]
                       /\ UNCHANGED result
  /\ UNCHANGED <<lock, files, target, out_path, fsops>>
  /\ UNCHANGED <<opsVars, locateVars, stagingVars>>

\* resolve_output_path: the explicit target, or what the save dialog answers:
\* a path, nothing (cancelled), or a dropped channel.
PickerAnswers == {"F", "G", "<none>", "<dropped>"}

resolve_output_path(tgt, answer) ==
  IF tgt # NoPath THEN [ok |-> TRUE, path |-> tgt]
  ELSE IF answer = "<dropped>" THEN [ok |-> FALSE, path |-> ""]
  ELSE IF answer = "<none>" THEN [ok |-> TRUE, path |-> ""]
  ELSE [ok |-> TRUE, path |-> answer]

\* 2) resolve the output path, the empty-path and the conflict checks
Resolve(p) ==
  /\ xpc[p] = "resolving"
  /\ \E tgt \in ExportPaths \cup {NoPath}, answer \in PickerAnswers :
       LET r == resolve_output_path(tgt, answer) IN
       /\ target' = [target EXCEPT ![p] = tgt]
       /\ IF ~r.ok
          THEN /\ progress' = emit_error(progress, p, "E_UNKNOWN")
               /\ result' = [result EXCEPT ![p] = err("E_UNKNOWN")]
               /\ xpc' = [xpc EXCEPT ![p] = "emitted"]
               /\ UNCHANGED out_path
          ELSE /\ out_path' = [out_path EXCEPT ![p] = r.path]
               /\ IF r.path = ""
                  THEN /\ progress' = emit_error(progress, p, "E_CANCELLED")
                       /\ result' = [result EXCEPT ![p] = err("E_CANCELLED")]
                       /\ xpc' = [xpc EXCEPT ![p] = "emitted"]
                  ELSE IF conflict(overwrite[p], files, r.path)
                  THEN /\ progress' = emit_error(progress, p, "E_EXISTS")
                       /\ result' = [result EXCEPT ![p] = err("E_EXISTS")]
                       /\ xpc' = [xpc EXCEPT ![p] = "emitted"]
                  ELSE /\ xpc' = [xpc EXCEPT ![p] = "writing"]
                       /\ UNCHANGED <<progress, result>>
  /\ UNCHANGED <<lock, files, overwrite, bytes, fsops>>
  /\ UNCHANGED <<opsVars, locateVars, stagingVars>>

\* 3) emit Write; atomic_write_all; emit Done or the error
Write(p) ==
  /\ xpc[p] = "writing"
  /\ \E io \in IoErrors :
       LET log1 == emit_progress(progress, p, "write")
           sha == hex_sha256(bytes[p])
           w == atomic_write_all(files, out_path[p], bytes[p], overwrite[p], io)
       IN
       /\ files' = w.fs
       /\ fsops' = [fsops EXCEPT ![p] = w.ops]
       /\ IF w.code # "OK"
          THEN /\ progress' = emit_error(log1, p, w.code)
               /\ result' = [result EXCEPT ![p] = err(w.code)]
          ELSE /\ progress' = emit_progress(log1, p, "done")
               /\ result' = [result EXCEPT ![p] =
                    [ok |-> TRUE, code |-> "OK", path |-> out_path[p],
                     bytes_written |-> w.n, sha256 |-> sha]]
  /\ xpc' = [xpc EXCEPT ![p] = "emitted"]
  /\ UNCHANGED <<lock, overwrite, bytes, target, out_path>>
  /\ UNCHANGED <<opsVars, locateVars, stagingVars>>

\* Mutant: the guard is leaked, the lock stays with the call.
drop_guard_Leaked(l, p) == l

\* _guard goes out of scope: the lock is free again
drop_guard(l, p) == IF l = p THEN 0 ELSE l

\* The call returns: _guard is dropped, and so are the payload's fields (bytes
\* and out_path stay as the record of what the call was given and resolved).
Return(p) ==
  /\ xpc[p] = "emitted"
  /\ xpc' = [xpc EXCEPT ![p] = "returned"]
  /\ lock' = drop_guard(lock, p)
  /\ overwrite' = [overwrite EXCEPT ![p] = FALSE]
  /\ target' = [target EXCEPT ![p] = NoPath]
  /\ UNCHANGED <<progress, files, bytes, out_path, result, fsops>>
  /\ UNCHANGED <<opsVars, locateVars, stagingVars>>

NextExport ==
  \E p \in Calls :
    \/ Invoke(p)
    \/ Acquire(p)
    \/ Prepare(p)
    \/ Resolve(p)
    \/ Write(p)
    \/ Return(p)

(***************************************************************************)
(* merge.rs, compress.rs: paths, names, processes                          *)
(***************************************************************************)
\* A path is the file it names and how it is spelled: 0 is the canonical
\* spelling, 1 another spelling of the same file ("./a.pdf", "x/../a.pdf").
\* The empty path names no file and has no parent.
UserFiles == {"a", "b"}
StagedNames == <<"s1", "s2", "s3", "s4">>
WorkDir == "w"
Spellings == {0, 1}
Path(f, k) == [file |-> f, sp |-> k]
EmptyPath == Path("", 0)
InputPaths == { Path(f, k) : f \in UserFiles, k \in Spellings }
OutputPaths == { Path(f, k) : f \in UserFiles \cup {StagedNames[1]}, k \in Spellings }
                 \cup {EmptyPath}

\* Path::new(output).parent() is Some
has_parent(p) == p # EmptyPath

\* canonicalize().unwrap_or(raw): the canonical spelling when the file
\* exists, the path as given when it does not.
canonicalize_or_raw(d, p) == IF p.file \in d THEN Path(p.file, 0) ELSE p

\* Mutant: the two paths are compared as given.
same_path_Raw(d, p, q) == p = q

same_path(d, p, q) == canonicalize_or_raw(d, p) = canonicalize_or_raw(d, q)

\* assert_output_not_in_inputs: Ok iff no input compares equal to the output
assert_output_not_in_inputs(d, paths, output) ==
  \A i \in DOMAIN paths : ~same_path(d, paths[i], output)

\* assert_output_not_same
assert_output_not_same(d, input, output) == ~same_path(d, input, output)

\* PdfIn.name: a few characters, "/" among sanitize's forbidden ones
Forbidden == {"/", "\\", ":", "*", "?", "\"", "<", ">", "|"}
Names == { <<>>, <<"a">>, <<"/">> }
sanitize(name) == [i \in DOMAIN name |-> IF name[i] \in Forbidden THEN "_" ELSE name[i]]

\* The file the i-th staged input of merge is written to: work/{i:03}_{name}
merge_staged(i, name) == Path(StagedNames[i], 1)
\* The file the staged input of compress is written to: work/{name}, which
\* is the work directory itself when the sanitized name is empty.
compress_staged(name) ==
  IF sanitize(name) = <<>> THEN Path(WorkDir, 1) ELSE Path(StagedNames[1], 1)

Presets == {"lossless", "small", "smaller", "tiny"}

\* What a started process gives back: it could not be spawned, it exited
\* non-zero, it exited zero with the tool's name in its standard output, or
\* it exited zero without.
RunOutcomes == {"spawnfail", "nonzero", "exit0"}
VerifyOutcomes == RunOutcomes \cup {"exit0_notoken"}
success(o) == o \in {"exit0", "exit0_notoken"}

\* verify_qpdf: exit status and "qpdf" in stdout
verify_qpdf(o) == success(o) /\ o = "exit0"
\* verify_gs: exit status only
verify_gs(o) == success(o)

\* merge: paths.len() < 2
MinSources == 2

\* Mutant: one source is let through.
too_few_OffByOne(n) == n < MinSources - 1

too_few(n) == n < MinSources

Ev(e, tool, why, out) == [e |-> e, tool |-> tool, why |-> why, out |-> out]

\* What a call returns; `range` is the range token its error message names.
NoRet == [done |-> FALSE, ok |-> FALSE, err |-> "-", range |-> "-"]
RetOk == [done |-> TRUE, ok |-> TRUE, err |-> "-", range |-> "-"]
RetErr(kind) == [done |-> TRUE, ok |-> FALSE, err |-> kind, range |-> "-"]
RetErrRange(kind, r) == [done |-> TRUE, ok |-> FALSE, err |-> kind, range |-> r]
NoToolRes == [ok |-> FALSE, err |-> "-"]

Seqs(S, n) == UNION { [1..k -> S] : k \in 0..n }

\* split_pdf: range tokens, the output directory, the files qpdf writes
RangeTokens == {"1-3", "8"}
OutDir == "d"
SplitNames == <<"o1", "o2", "o3", "o4">>

NoReq == [kind |-> "-", variant |-> "-", paths |-> <<>>, names |-> <<>>,
          output |-> EmptyPath, preset |-> "-", ranges |-> <<>>]

Requests ==
  { [kind |-> "merge", variant |-> "paths", paths |-> ps, names |-> <<>>,
     output |-> o, preset |-> "-", ranges |-> <<>>] : ps \in Seqs(InputPaths, MaxSources), o \in OutputPaths }
  \cup
  { [kind |-> "merge", variant |-> "bytes", paths |-> <<>>, names |-> ns,
     output |-> o, preset |-> "-", ranges |-> <<>>] : ns \in Seqs(Names, MaxSources), o \in OutputPaths }
  \cup
  { [kind |-> "compress", variant |-> "paths", paths |-> <<p>>, names |-> <<>>,
     output |-> o, preset |-> pr, ranges |-> <<>>] : p \in InputPaths, o \in OutputPaths, pr \in Presets }
  \cup
  { [kind |-> "compress", variant |-> "bytes", paths |-> <<>>, names |-> <<n>>,
     output |-> o, preset |-> pr, ranges |-> <<>>] : n \in Names, o \in OutputPaths, pr \in Presets }
  \cup
  { [kind |-> "split", variant |-> "paths", paths |-> <<p>>, names |-> <<>>,
     output |-> Path(OutDir, 0), preset |-> "-", ranges |-> rs] :
       p \in { Path(f, 0) : f \in UserFiles }, rs \in Seqs(RangeTokens, MaxRanges) }

OpsIdle ==
  /\ opc = "idle"
  /\ req = NoReq
  /\ disk = {}
  /\ work = "none"
  /\ in_paths = <<>>
  /\ toolres = NoToolRes
  /\ ret = NoRet
  /\ outputs = <<>>
  /\ trace = <<>>

\* merge, compress or split_pdf has just been invoked with some request.
OpsStart ==
  /\ req \in Requests
  /\ opc = IF req.kind = "split" THEN "split_check" ELSE "ensure_parent"
  /\ disk \in SUBSET (IF req.kind = "split" THEN {req.paths[1].file, OutDir} ELSE UserFiles)
  /\ work = "none"
  /\ in_paths = <<>>
  /\ toolres = NoToolRes
  /\ ret = NoRet
  /\ outputs = <<>>
  /\ trace = <<>>

Finish(r) == /\ ret' = r
             /\ opc' = "done"

\* ensure_parent_dir(&output)?
EnsureParent ==
  /\ opc = "ensure_parent"
  /\ \E made \in BOOLEAN :
       IF ~has_parent(req.output)
       THEN /\ opc' = IF req.kind = "merge" THEN "count"
                      ELSE IF req.variant = "bytes" THEN "stage" ELSE "assert"
            /\ UNCHANGED <<ret, trace>>
       ELSE /\ trace' = Append(trace, Ev("mkdir_parent", "-", "-", IF made THEN "ok" ELSE "fail"))
            /\ IF made
               THEN /\ opc' = IF req.kind = "merge" THEN "count"
                              ELSE IF req.variant = "bytes" THEN "stage" ELSE "assert"
                    /\ UNCHANGED ret
               ELSE Finish(RetErr("mkdir_parent"))
  /\ UNCHANGED <<outputs, req, disk, work, in_paths, toolres>>
  /\ UNCHANGED <<exportVars, locateVars, stagingVars>>

\* merge: if paths.len() < 2 / if items.len() < 2
MergeCount ==
  /\ opc = "count"
  /\ LET n == IF req.variant = "paths" THEN Len(req.paths) ELSE Len(req.names) IN
       IF too_few(n) THEN Finish(RetErr("too_few"))
       ELSE /\ opc' = IF req.variant = "bytes" THEN "stage" ELSE "assert"
            /\ UNCHANGED ret
  /\ UNCHANGED <<outputs, req, disk, work, in_paths, toolres, trace>>
  /\ UNCHANGED <<exportVars, locateVars, stagingVars>>

\* The staged paths of the call's in-memory inputs
staged_paths ==
  IF req.kind = "merge" THEN [i \in DOMAIN req.names |-> merge_staged(i, req.names[i])]
  ELSE <<compress_staged(req.names[1])>>

\* A staged write may fail; writing to the work directory itself always does.
WriteResults(p) == IF p.file = WorkDir THEN {FALSE} ELSE BOOLEAN

\* write_temp_pdfs(app, &items)? / write_temp_pdf(app, &pdf)?
\* k is the first input whose fs::write fails (0: none fails).
Stage ==
  /\ opc = "stage"
  /\ \E made \in BOOLEAN, k \in 0..Len(staged_paths) :
       LET mk == Ev("mkdir_work", "-", "-", IF made THEN "ok" ELSE "fail")
           n == IF k = 0 THEN Len(staged_paths) ELSE k
           writes == [i \in 1..n |->
                        Ev("stage", "-", "-", IF i = k THEN "fail" ELSE "ok")]
       IN
       /\ \A i \in 1..n : (i # k) \in WriteResults(staged_paths[i])
       /\ IF ~made
          THEN /\ trace' = Append(trace, mk)
               /\ Finish(RetErr("mkdir_work"))
               /\ UNCHANGED <<work, in_paths, disk>>
          ELSE /\ trace' = Append(trace, mk) \o writes
               /\ work' = "created"
               /\ disk' = disk \cup { staged_paths[i].file : i \in { j \in 1..n : j # k } }
               /\ IF k # 0
                  THEN /\ Finish(RetErr("stage_write"))
                       /\ UNCHANGED in_paths
                  ELSE /\ in_paths' = staged_paths
                       /\ opc' = "assert"
                       /\ UNCHANGED ret
  /\ UNCHANGED <<outputs, req, toolres>>
  /\ UNCHANGED <<exportVars, locateVars, stagingVars>>

\* The paths handed to the tool: the caller's, or the staged ones
tool_inputs == IF req.variant = "paths" THEN req.paths ELSE in_paths

\* Mutant: every preset starts with Ghostscript.
run_path_first_AlwaysGs(preset) == "gs_find"

\* Where run_path starts: qpdf_lossless for the lossless preset, else gs_lossy
run_path_first(preset) == IF preset = "lossless" THEN "qpdf_find" ELSE "gs_find"

\* assert_output_not_in_inputs(&paths, &output)? / assert_output_not_same(..)?
AssertOutput ==
  /\ opc = "assert"
  /\ LET fine == IF req.kind = "merge"
                 THEN assert_output_not_in_inputs(disk, tool_inputs, req.output)
                 ELSE assert_output_not_same(disk, tool_inputs[1], req.output)
     IN IF ~fine THEN Finish(RetErr("collision"))
        ELSE /\ opc' = IF req.kind = "merge" THEN "qpdf_dev" ELSE run_path_first(req.preset)
             /\ UNCHANGED ret
  /\ UNCHANGED <<outputs, req, disk, work, in_paths, toolres, trace>>
  /\ UNCHANGED <<exportVars, locateVars, stagingVars>>

\* The tool part of the call is over: the byte variants go on to remove the
\* work directory, the path variants return (run_qpdf(..).await?).
AfterTool(r) ==
  /\ toolres' = r
  /\ IF req.variant = "bytes"
     THEN /\ opc' = "cleanup"
          /\ UNCHANGED ret
     ELSE Finish(IF r.ok THEN RetOk ELSE RetErr(r.err))

\* run_qpdf A): the development executable, when it exists
RunQpdfDev ==
  /\ opc = "qpdf_dev"
  /\ \E exists \in BOOLEAN, o \in RunOutcomes :
       IF exists
       THEN /\ trace' = Append(trace, Ev("spawn", "qpdf", "op", o))
            /\ IF success(o) THEN AfterTool([ok |-> TRUE, err |-> "-"])
               ELSE /\ opc' = "qpdf_res"
                    /\ UNCHANGED <<toolres, ret>>
       ELSE /\ opc' = "qpdf_res"
            /\ UNCHANGED <<toolres, ret, trace>>
  /\ UNCHANGED <<outputs, req, disk, work, in_paths>>
  /\ UNCHANGED <<exportVars, locateVars, stagingVars>>

\* run_qpdf B1): the resource executable through the sidecar
RunQpdfSidecar ==
  /\ opc = "qpdf_res"
  /\ \E exists \in BOOLEAN, sidecar \in BOOLEAN, o \in RunOutcomes :
       IF ~exists
       THEN /\ AfterTool([ok |-> FALSE, err |-> "tool_not_found"])
            /\ UNCHANGED trace
       ELSE IF sidecar
       THEN /\ trace' = Append(trace, Ev("spawn", "qpdf", "op", o))
            /\ IF success(o) THEN AfterTool([ok |-> TRUE, err |-> "-"])
               ELSE /\ opc' = "qpdf_direct"
                    /\ UNCHANGED <<toolres, ret>>
       ELSE /\ opc' = "qpdf_direct"
            /\ UNCHANGED <<toolres, ret, trace>>
  /\ UNCHANGED <<outputs, req, disk, work, in_paths>>
  /\ UNCHANGED <<exportVars, locateVars, stagingVars>>

\* run_qpdf B2): the resource executable, started directly
RunQpdfDirect ==
  /\ opc = "qpdf_direct"
  /\ \E o \in RunOutcomes :
       /\ trace' = Append(trace, Ev("spawn", "qpdf", "op", o))
       /\ AfterTool(IF success(o) THEN [ok |-> TRUE, err |-> "-"]
                    ELSE IF o = "nonzero" THEN [ok |-> FALSE, err |-> "tool_nonzero"]
                    ELSE [ok |-> FALSE, err |-> "tool_spawn"])
  /\ UNCHANGED <<outputs, req, disk, work, in_paths>>
  /\ UNCHANGED <<exportVars, locateVars, stagingVars>>

\* Mutant: a Ghostscript failure is returned instead of falling back.
run_path_after_gs_NoFallback(gs_ok) == "return"

\* run_path: Ok(()) => Ok(()), Err(e) => qpdf_lossless
run_path_after_gs(gs_ok) == IF gs_ok THEN "return" ELSE "qpdf_find"

GsEnds(gs_ok, kind) ==
  IF run_path_after_gs(gs_ok) = "return"
  THEN AfterTool(IF gs_ok THEN [ok |-> TRUE, err |-> "-"] ELSE [ok |-> FALSE, err |-> kind])
  ELSE /\ opc' = "qpdf_find"
       /\ UNCHANGED <<toolres, ret>>

\* gs_lossy: find_gs(app).ok_or_else(..)?
GsFind ==
  /\ opc = "gs_find"
  /\ \E found \in BOOLEAN :
       /\ trace' = Append(trace, Ev("find", "gs", "-", IF found THEN "found" ELSE "notfound"))
       /\ IF found THEN /\ opc' = "gs_verify"
                        /\ UNCHANGED <<toolres, ret>>
          ELSE GsEnds(FALSE, "tool_not_found")
  /\ UNCHANGED <<outputs, req, disk, work, in_paths>>
  /\ UNCHANGED <<exportVars, locateVars, stagingVars>>

\* gs_lossy: verify_gs(&bin_dir, &exe, &envs)?
GsVerify ==
  /\ opc = "gs_verify"
  /\ \E o \in VerifyOutcomes :
       /\ trace' = Append(trace, Ev("spawn", "gs", "verify", o))
       /\ IF verify_gs(o) THEN /\ opc' = "gs_run"
                               /\ UNCHANGED <<toolres, ret>>
          ELSE GsEnds(FALSE, IF o = "spawnfail" THEN "tool_spawn" ELSE "tool_verify")
  /\ UNCHANGED <<outputs, req, disk, work, in_paths>>
  /\ UNCHANGED <<exportVars, locateVars, stagingVars>>

\* gs_lossy: run_with_env(..)?; out.status.success()
GsRun ==
  /\ opc = "gs_run"
  /\ \E o \in RunOutcomes :
       /\ trace' = Append(trace, Ev("spawn", "gs", "op", o))
       /\ GsEnds(success(o), IF o = "spawnfail" THEN "tool_spawn" ELSE "tool_nonzero")
  /\ UNCHANGED <<outputs, req, disk, work, in_paths>>
  /\ UNCHANGED <<exportVars, locateVars, stagingVars>>

\* qpdf_lossless: find_qpdf(app).ok_or_else(..)?
QpdfFind ==
  /\ opc = "qpdf_find"
  /\ \E found \in BOOLEAN :
       /\ trace' = Append(trace, Ev("find", "qpdf", "-", IF found THEN "found" ELSE "notfound"))
       /\ IF found THEN /\ opc' = "qpdf_verify"
                        /\ UNCHANGED <<toolres, ret>>
          ELSE AfterTool([ok |-> FALSE, err |-> "tool_not_found"])
  /\ UNCHANGED <<outputs, req, disk, work, in_paths>>
  /\ UNCHANGED <<exportVars, locateVars, stagingVars>>

\* qpdf_lossless: verify_qpdf(&exe, &bin_dir)?
QpdfVerify ==
  /\ opc = "qpdf_verify"
  /\ \E o \in VerifyOutcomes :
       /\ trace' = Append(trace, Ev("spawn", "qpdf", "verify", o))
       /\ IF verify_qpdf(o) THEN /\ opc' = "qpdf_run"
                                 /\ UNCHANGED <<toolres, ret>>
          ELSE AfterTool([ok |-> FALSE,
                          err |-> IF o = "spawnfail" THEN "tool_spawn" ELSE "tool_verify"])
  /\ UNCHANGED <<outputs, req, disk, work, in_paths>>
  /\ UNCHANGED <<exportVars, locateVars, stagingVars>>

\* qpdf_lossless: run_with_env(..)?; out.status.success()
QpdfRun ==
  /\ opc = "qpdf_run"
  /\ \E o \in RunOutcomes :
       /\ trace' = Append(trace, Ev("spawn", "qpdf", "op", o))
       /\ AfterTool(IF success(o) THEN [ok |-> TRUE, err |-> "-"]
                    ELSE IF o = "nonzero" THEN [ok |-> FALSE, err |-> "tool_nonzero"]
                    ELSE [ok |-> FALSE, err |-> "tool_spawn"])
  /\ UNCHANGED <<outputs, req, disk, work, in_paths>>
  /\ UNCHANGED <<exportVars, locateVars, stagingVars>>

\* let _ = fs::remove_dir_all(&work); then the tool's result is returned
Cleanup ==
  /\ opc = "cleanup"
  /\ \E removed \in BOOLEAN :
       /\ trace' = Append(trace, Ev("rm_work", "-", "-", IF removed THEN "ok" ELSE "fail"))
       /\ work' = IF removed THEN "removed" ELSE work
       /\ disk' = IF removed THEN disk \ ({ in_paths[i].file : i \in DOMAIN in_paths }) ELSE disk
  /\ Finish(IF toolres.ok THEN RetOk ELSE RetErr(toolres.err))
  /\ UNCHANGED <<outputs, req, in_paths, toolres>>
  /\ UNCHANGED <<exportVars, locateVars, stagingVars>>

\* Mutant: the loop goes on whatever the invocation gave back.
split_continues_Always(o) == TRUE

\* split_pdf: the loop goes on to outputs.push when the process was spawned
\* and its status is success
split_continues(o) == o # "spawnfail" /\ success(o)

\* split_pdf: if ranges.is_empty()
SplitCheck ==
  /\ opc = "split_check"
  /\ IF req.ranges = <<>> THEN Finish(RetErr("no_ranges"))
     ELSE /\ opc' = "split_run"
          /\ UNCHANGED ret
  /\ UNCHANGED <<outputs, req, disk, work, in_paths, toolres, trace>>
  /\ UNCHANGED <<exportVars, locateVars, stagingVars>>

\* split_pdf: one turn of the loop over ranges.iter().enumerate(), and the
\* return of Ok(outputs) after the last. qpdf exits zero only when it could
\* write its output, which needs the output directory.
SplitRange ==
  /\ opc = "split_run"
  /\ LET i == Len(outputs) + 1
         r == req.ranges[i]
     IN \E o \in RunOutcomes :
          /\ o = "exit0" => OutDir \in disk
          /\ trace' = Append(trace, Ev("spawn", "qpdf", "op", o))
          /\ IF split_continues(o)
             THEN /\ outputs' = Append(outputs, [ord |-> i, token |-> r])
                  /\ disk' = IF o = "exit0" THEN disk \cup {SplitNames[i]} ELSE disk
                  /\ IF i = Len(req.ranges) THEN Finish(RetOk)
                     ELSE UNCHANGED <<opc, ret>>
             ELSE /\ Finish(IF o = "spawnfail" THEN RetErr("tool_spawn")
                            ELSE RetErrRange("tool_nonzero", r))
                  /\ UNCHANGED <<outputs, disk>>
  /\ UNCHANGED <<req, work, in_paths, toolres>>
  /\ UNCHANGED <<exportVars, locateVars, stagingVars>>

NextOps ==
  \/ EnsureParent
  \/ MergeCount
  \/ Stage
  \/ AssertOutput
  \/ RunQpdfDev
  \/ RunQpdfSidecar
  \/ RunQpdfDirect
  \/ GsFind
  \/ GsVerify
  \/ GsRun
  \/ QpdfFind
  \/ QpdfVerify
  \/ QpdfRun
  \/ Cleanup
  \/ SplitCheck
  \/ SplitRange

(***************************************************************************)
(* compress.rs: find_gs over an installation                               *)
(***************************************************************************)
\* A candidate directory (a root, or an entry of a root): whether it is a
\* directory, whether bin/gswin64c.exe exists in it, and whether lib,
\* Resource and fonts are directories of it.
Cand(dir, exe, lib, resource, fonts) ==
  [dir |-> dir, exe |-> exe, lib |-> lib, resource |-> resource, fonts |-> fonts]
FlatShapes ==
  { Cand(TRUE, FALSE, FALSE, FALSE, FALSE), Cand(TRUE, FALSE, TRUE, TRUE, FALSE),
    Cand(TRUE, TRUE, FALSE, FALSE, FALSE),  Cand(TRUE, TRUE, TRUE, FALSE, FALSE),
    Cand(TRUE, TRUE, FALSE, TRUE, FALSE),   Cand(TRUE, TRUE, TRUE, TRUE, FALSE),
    Cand(TRUE, TRUE, TRUE, TRUE, TRUE) }
\* An entry of a root is a candidate directory or a plain file.
EntryShapes == FlatShapes \cup { Cand(FALSE, FALSE, FALSE, FALSE, FALSE) }

\* A root: itself as the candidate without version directory, and its
\* entries in the order read_dir yields them.
GsRoots == { [flat |-> c, entries |-> es] : c \in FlatShapes, es \in Seqs(EntryShapes, MaxEntries) }
\* The packaged-resource root when the resource path does not resolve
NoRoot == [flat |-> Cand(FALSE, FALSE, FALSE, FALSE, FALSE), entries |-> <<>>]
GsLayouts ==
  { [dev |-> d, res_ok |-> TRUE, res |-> r] : d \in GsRoots, r \in GsRoots }
  \cup { [dev |-> d, res_ok |-> FALSE, res |-> NoRoot] : d \in GsRoots }
NoLayout == [dev |-> NoRoot, res_ok |-> FALSE, res |-> NoRoot]

GsNone == [found |-> FALSE, root |-> "-", at |-> 0, envs |-> {}]
GsSome(root, at, envs) == [found |-> TRUE, root |-> root, at |-> at, envs |-> envs]
NotLooked == [found |-> FALSE, root |-> "?", at |-> 0, envs |-> {}]

\* Mutant: lib alone is enough.
gs_siblings_LibOnly(c) == c.lib

\* find_gs: lib.is_dir() && resource.is_dir()
gs_siblings(c) == c.lib /\ c.resource

\* find_gs: GS_LIB, and GS_FONTPATH if fonts.is_dir()
gs_envs(c) == IF c.fonts THEN {"GS_LIB", "GS_FONTPATH"} ELSE {"GS_LIB"}

\* find_gs: if exe.exists() { if lib.is_dir() && resource.is_dir() { return
gs_accepts(c) == c.exe /\ gs_siblings(c)

\* find_gs, layout 2: the first entry from the k-th on that is a directory
\* and is accepted (0: none)
RECURSIVE gs_scan(_, _)
gs_scan(es, k) ==
  IF k > Len(es) THEN 0
  ELSE IF es[k].dir /\ gs_accepts(es[k]) THEN k
  ELSE gs_scan(es, k + 1)

\* find_gs: the body of the loop over the roots
gs_in_root(name, r) ==
  IF gs_accepts(r.flat) THEN GsSome(name, 0, gs_envs(r.flat))
  ELSE LET k == gs_scan(r.entries, 1) IN
       IF k # 0 THEN GsSome(name, k, gs_envs(r.entries[k])) ELSE GsNone

\* Mutant: the packaged-resource root is searched first.
find_gs_ResFirst(l) ==
  LET r == IF l.res_ok THEN gs_in_root("res", l.res) ELSE GsNone IN
  IF r.found THEN r ELSE gs_in_root("dev", l.dev)

\* find_gs: for root in [Some(dev_root), res_root].into_iter().flatten()
find_gs(l) ==
  LET d == gs_in_root("dev", l.dev) IN
  IF d.found THEN d
  ELSE IF l.res_ok THEN gs_in_root("res", l.res)
  ELSE GsNone

(***************************************************************************)
(* compress.rs: find_qpdf over an installation                             *)
(***************************************************************************)
\* An entry of a binaries root: whether it is a directory, whether its
\* lowercased name contains "qpdf", whether bin/qpdf.exe exists in it.
QEntry(dir, named, exe) == [dir |-> dir, named |-> named, exe |-> exe]
QEntryShapes ==
  { QEntry(TRUE, TRUE, TRUE), QEntry(TRUE, TRUE, FALSE), QEntry(TRUE, FALSE, TRUE),
    QEntry(FALSE, TRUE, FALSE) }

\* A root: which of qpdf/bin/qpdf.exe, qpdf/qpdf.exe and qpdf.exe exist in
\* it, and its entries in the order read_dir yields them.
DirectPaths == 1..3
QpdfRoots == { [direct |-> ds, entries |-> es] :
                 ds \in [DirectPaths -> BOOLEAN], es \in Seqs(QEntryShapes, MaxEntries) }
NoQpdfRoot == [direct |-> [i \in DirectPaths |-> FALSE], entries |-> <<>>]
QpdfLayouts ==
  { [dev |-> d, res_ok |-> TRUE, res |-> r] : d \in QpdfRoots, r \in QpdfRoots }
  \cup { [dev |-> d, res_ok |-> FALSE, res |-> NoQpdfRoot] : d \in QpdfRoots }
\* No lookup of qpdf is to be made.
NoQpdfLayout == [dev |-> NoQpdfRoot, res_ok |-> FALSE, res |-> NoQpdfRoot, none |-> TRUE]

QpdfNone == [found |-> FALSE, root |-> "-", layout |-> "-", at |-> 0]
QpdfSome(root, layout, at) == [found |-> TRUE, root |-> root, layout |-> layout, at |-> at]
QpdfNotLooked == [found |-> FALSE, root |-> "?", layout |-> "-", at |-> 0]

\* find_qpdf: for p in direct { if p.exists() { return .. } } (0: none exists)
RECURSIVE qpdf_direct(_, _)
qpdf_direct(ds, i) ==
  IF i \notin DirectPaths THEN 0
  ELSE IF ds[i] THEN i
  ELSE qpdf_direct(ds, i + 1)

\* find_qpdf: p.is_dir() && name contains "qpdf", and cand.exists()
qpdf_accepts(e) == e.dir /\ e.named /\ e.exe

\* find_qpdf: the first accepted entry from the k-th on (0: none)
RECURSIVE qpdf_scan(_, _)
qpdf_scan(es, k) ==
  IF k > Len(es) THEN 0
  ELSE IF qpdf_accepts(es[k]) THEN k
  ELSE qpdf_scan(es, k + 1)

\* find_qpdf: the body of the loop over the roots
qpdf_in_root(name, r) ==
  LET i == qpdf_direct(r.direct, 1) IN
  IF i # 0 THEN QpdfSome(name, "direct", i)
  ELSE LET k == qpdf_scan(r.entries, 1) IN
       IF k # 0 THEN QpdfSome(name, "scan", k) ELSE QpdfNone

\* find_qpdf: for root in [Some(dev_root), res_root].into_iter().flatten()
find_qpdf(l) ==
  LET d == qpdf_in_root("dev", l.dev) IN
  IF d.found THEN d
  ELSE IF l.res_ok THEN qpdf_in_root("res", l.res)
  ELSE QpdfNone

LocateIdle ==
  /\ gs_layout = NoLayout
  /\ gs_found = NotLooked
  /\ qpdf_layout = NoQpdfLayout
  /\ qpdf_found = QpdfNotLooked

\* One of the two lookups is about to be made, on some installation.
LocateStart ==
  /\ gs_found = NotLooked
  /\ qpdf_found = QpdfNotLooked
  /\ \/ gs_layout \in GsLayouts /\ qpdf_layout = NoQpdfLayout
     \/ gs_layout = NoLayout /\ qpdf_layout \in QpdfLayouts

\* find_gs(app)
FindGs ==
  /\ gs_layout # NoLayout
  /\ gs_found = NotLooked
  /\ gs_found' = find_gs(gs_layout)
  /\ UNCHANGED <<gs_layout, qpdf_layout, qpdf_found>>
  /\ UNCHANGED <<exportVars, opsVars, stagingVars>>

\* find_qpdf(app)
FindQpdf ==
  /\ qpdf_layout # NoQpdfLayout
  /\ qpdf_found = QpdfNotLooked
  /\ qpdf_found' = find_qpdf(qpdf_layout)
  /\ UNCHANGED <<gs_layout, gs_found, qpdf_layout>>
  /\ UNCHANGED <<exportVars, opsVars, stagingVars>>

NextLocate ==
  \/ FindGs
  \/ FindQpdf

(***************************************************************************)
(* merge.rs, compress.rs: work directories of concurrent in-memory calls   *)
(***************************************************************************)
StageKinds == {"merge", "compress"}

\* temp_dir()/identifier/merge_{ts} or compress_{ts}, ts the milliseconds
\* since the epoch at the time of the call
work_dir(kind, ts) == [kind |-> kind, ts |-> ts]

NoStage == [pc |-> "off", kind |-> "-", ts |-> 0, intact |-> FALSE]
DirOf(c) == work_dir(stg[c].kind, stg[c].ts)

StagingIdle ==
  /\ clock = 0
  /\ stg = [c \in Calls |-> NoStage]
  /\ wdirs = {}

StagingStart ==
  /\ clock = 0
  /\ stg = [c \in Calls |-> [NoStage EXCEPT !.pc = "called"]]
  /\ wdirs = {}

\* Time passes.
Tick ==
  /\ clock < MaxClock
  /\ clock' = clock + 1
  /\ UNCHANGED <<stg, wdirs>>
  /\ UNCHANGED <<exportVars, opsVars, locateVars>>

\* write_temp_pdfs / write_temp_pdf: the clock is read, the directory is
\* created (create_dir_all succeeds on an existing one) and the inputs are
\* written into it.
StageInputs(c) ==
  /\ stg[c].pc = "called"
  /\ \E kind \in StageKinds :
       /\ stg' = [stg EXCEPT ![c] = [pc |-> "staged", kind |-> kind, ts |-> clock,
                                     intact |-> FALSE]]
       /\ wdirs' = wdirs \cup {[dir |-> work_dir(kind, clock), owner |-> c]}
  /\ UNCHANGED clock
  /\ UNCHANGED <<exportVars, opsVars, locateVars>>

\* run_qpdf / run_path: the tool reads the staged inputs, if they are there.
RunTool(c) ==
  /\ stg[c].pc = "staged"
  /\ stg' = [stg EXCEPT ![c].pc = "ran",
                        ![c].intact = ([dir |-> DirOf(c), owner |-> c] \in wdirs)]
  /\ UNCHANGED <<clock, wdirs>>
  /\ UNCHANGED <<exportVars, opsVars, locateVars>>

\* let _ = fs::remove_dir_all(&work)
RemoveWork(c) ==
  /\ stg[c].pc = "ran"
  /\ stg' = [stg EXCEPT ![c].pc = "done"]
  /\ wdirs' = { w \in wdirs : w.dir # DirOf(c) }
  /\ UNCHANGED clock
  /\ UNCHANGED <<exportVars, opsVars, locateVars>>

NextStaging ==
  \/ Tick
  \/ \E c \in Calls : StageInputs(c) \/ RunTool(c) \/ RemoveWork(c)

(***************************************************************************)
(* Specifications                                                          *)
(***************************************************************************)
InitExport == ExportStart /\ OpsIdle /\ LocateIdle /\ StagingIdle
SpecExport == InitExport /\ [][NextExport]_vars

\* The runtime keeps polling a task that can go on, the mutex hands the lock
\* to a waiting call once it is free, and the file picker answers; nothing
\* makes a caller invoke the command.
FairExport ==
  \A p \in Calls :
    /\ WF_vars(Acquire(p))
    /\ WF_vars(Prepare(p))
    /\ WF_vars(Resolve(p))
    /\ WF_vars(Write(p))
    /\ WF_vars(Return(p))
SpecExportFair == InitExport /\ [][NextExport]_vars /\ FairExport

InitOps == OpsStart /\ ExportIdle /\ LocateIdle /\ StagingIdle
SpecOps == InitOps /\ [][NextOps]_vars

InitLocate == LocateStart /\ ExportIdle /\ OpsIdle /\ StagingIdle
SpecLocate == InitLocate /\ [][NextLocate]_vars

InitStaging == StagingStart /\ ExportIdle /\ OpsIdle /\ LocateIdle
SpecStaging == InitStaging /\ [][NextStaging]_vars

(***************************************************************************)
(* Claims about the export transaction (SpecExport)                        *)
(***************************************************************************)
Terminal == {"done", "error"}

EventsOf(p) == SelectSeq(progress, LAMBDA e : e.call = p)
PhasesOf(p) == [i \in DOMAIN EventsOf(p) |-> EventsOf(p)[i].phase]
TerminalsOf(p) == { i \in DOMAIN progress : progress[i].call = p /\ progress[i].phase \in Terminal }
InFlight(p) == /\ \E i \in DOMAIN progress : progress[i].call = p /\ progress[i].phase = "prepare"
               /\ TerminalsOf(p) = {}

\* C1: at most one export call is ever between its Prepare event and its
\* terminal event, and every Prepare event on the channel comes after the
\* terminal event of every call that emitted anything before it.
C1_ExportsSerialized ==
  /\ \A p, q \in Calls : p # q => ~(InFlight(p) /\ InFlight(q))
  /\ \A i \in DOMAIN progress :
       progress[i].phase = "prepare" =>
         \A j \in 1..(i - 1) :
           \E k \in j..(i - 1) : /\ progress[k].call = progress[j].call
                                 /\ progress[k].phase \in Terminal

\* C1 witness: a call emitted Prepare after another call's terminal event,
\* having waited for the lock while that call held it.
C1_Witness ==
  \E i, j \in DOMAIN progress :
    /\ i < j
    /\ progress[i].phase \in Terminal
    /\ progress[j].phase = "prepare"
    /\ progress[j].call # progress[i].call

\* C2: a call that has reached its return has emitted exactly one terminal
\* event, which carries the outcome it returns (Done for Ok, Error with the
\* returned code otherwise); a call that has not reached it has emitted none.
C2_OneTerminalEvent ==
  \A p \in Calls :
    IF xpc[p] \in {"emitted", "returned"}
    THEN /\ Cardinality(TerminalsOf(p)) = 1
         /\ \A i \in TerminalsOf(p) :
              IF result[p].ok THEN progress[i].phase = "done"
              ELSE progress[i].phase = "error" /\ progress[i].code = result[p].code
    ELSE TerminalsOf(p) = {}

\* C2 witness: one call has returned Ok and another has returned cancelled.
C2_Witness ==
  \E p, q \in Calls :
    /\ xpc[p] = "returned" /\ result[p].ok
    /\ xpc[q] = "returned" /\ result[q].code = "E_CANCELLED"

\* C3: the events of one call are, in order, Prepare, then optionally Write,
\* then one of Done or Error, Done only after Write, nothing after the
\* terminal event.
C3_EventOrder ==
  \A p \in Calls :
    PhasesOf(p) \in { <<>>, <<"prepare">>, <<"prepare", "error">>,
                      <<"prepare", "write">>, <<"prepare", "write", "done">>,
                      <<"prepare", "write", "error">> }

\* C3 witness: one call went through Prepare, Write, Done and another has
\* returned after Prepare, Error or Prepare, Write, Error.
C3_Witness ==
  \E p, q \in Calls :
    /\ PhasesOf(p) = <<"prepare", "write", "done">>
    /\ PhasesOf(q) \in { <<"prepare", "error">>, <<"prepare", "write", "error">> }
    /\ xpc[q] = "returned"

AimedAt(p, f) == validate_pdf(bytes[p]) /\ out_path[p] = f
Whole(p) == ContentOf(bytes[p], bytes[p].len)

\* C4 as stated: once two calls with valid payloads aimed at the same
\* destination have both returned, the destination holds the complete payload
\* of one of them.
C4_Original ==
  \A p, q \in Calls :
    (p # q /\ xpc[p] = "returned" /\ xpc[q] = "returned"
       /\ AimedAt(p, "F") /\ AimedAt(q, "F"))
    => files["F"] \in {Whole(p), Whole(q)}

\* C4 as amended: a destination is always either what it was before the calls
\* (absent or the old content), absent, or the complete payload of a call
\* that reported Done for it: never a partial or a mixed content.
C4_NeverPartial ==
  \A f \in DataFiles :
    \/ files[f] \in {Absent, Old}
    \/ \E p \in Calls : /\ files[f] = Whole(p)
                        /\ AimedAt(p, f)
                        /\ \E i \in TerminalsOf(p) : progress[i].phase = "done"

\* C4 witness: two calls aimed at the same destination have both returned,
\* the second having replaced what the first wrote.
C4_Witness ==
  \E p, q \in Calls :
    /\ p # q /\ xpc[p] = "returned" /\ xpc[q] = "returned"
    /\ AimedAt(p, "F") /\ AimedAt(q, "F")
    /\ result[p].ok /\ result[q].ok
    /\ files["F"] = Whole(q)

\* The destination a call is at: the one it resolves in this step, or the
\* one it resolved.
DestinationNow(p) == IF xpc[p] = "resolving" THEN out_path'[p] ELSE out_path[p]

\* C5: a step of a call made with overwrite absent or false, while its
\* destination exists, changes no file and performs no filesystem operation,
\* and when it ends the call, it ends it with E_EXISTS.
C5_ConflictKeepsDestination ==
  [][\A p \in Calls :
       (/\ xpc[p] \in {"resolving", "writing"}
        /\ xpc'[p] # xpc[p]
        /\ ~overwrite[p]
        /\ DestinationNow(p) \in ExportPaths \ {""}
        /\ path_exists(files, DestinationNow(p)))
       => /\ files' = files
          /\ fsops'[p] = <<>>
          /\ xpc'[p] = "emitted" =>
               /\ result'[p].code = "E_EXISTS"
               /\ progress'[Len(progress')] = Event(p, "error", "E_EXISTS")]_vars

\* C5 witness: a call without overwrite ended with E_EXISTS before the Write
\* event, the old destination in place.
C5_Witness ==
  \E p \in Calls :
    /\ xpc[p] = "emitted" /\ ~overwrite[p] /\ out_path[p] = "F"
    /\ result[p].code = "E_EXISTS"
    /\ PhasesOf(p) = <<"prepare", "error">>
    /\ files["F"] = Old /\ fsops[p] = <<>>

HasHeader(b) == b.head
HasTrailerInTail(b) ==
  /\ b.eof >= 0
  /\ b.eof + TrailerLen <= b.len
  /\ b.eof >= b.len - TailWindow

\* C6: a call whose decoded bytes lack the header or lack the trailer in
\* their last 4096 bytes ends with E_INVALID_PDF, having emitted no Write
\* event and performed no filesystem operation.
C6_InvalidPayloadWritesNothing ==
  \A p \in Calls :
    (bytes[p] # NoBytes /\ (~HasHeader(bytes[p]) \/ ~HasTrailerInTail(bytes[p])))
    => /\ xpc[p] \in {"emitted", "returned"}
       /\ result[p].code = "E_INVALID_PDF"
       /\ PhasesOf(p) = <<"prepare", "error">>
       /\ fsops[p] = <<>>

\* C6 witness: a payload whose only trailer lies before the tail window was
\* rejected, and so was one without header.
C6_Witness ==
  \E p, q \in Calls :
    /\ xpc[p] = "returned" /\ bytes[p].head /\ bytes[p].eof = 903
    /\ result[p].code = "E_INVALID_PDF"
    /\ xpc[q] = "returned" /\ ~bytes[q].head
    /\ result[q].code = "E_INVALID_PDF"

\* The call resolved no explicit target and the picker gave no selection.
CancelledCase(p) == xpc[p] = "emitted" /\ target[p] = NoPath /\ out_path[p] = ""

\* C18 as stated: a call without explicit target whose picker selection is
\* empty ends as cancelled, with no Error event on the channel and without
\* any filesystem operation.
C18_Original ==
  \A p \in Calls :
    CancelledCase(p) =>
      /\ result[p].code = "E_CANCELLED"
      /\ \A i \in TerminalsOf(p) : progress[i].phase # "error"
      /\ fsops[p] = <<>>

\* C18 as amended: a call without explicit target whose picker selection is
\* empty returns the error E_CANCELLED after one Error event carrying that
\* code and no Write event, without any filesystem operation; and only a call
\* whose resolved path is empty ever ends with E_CANCELLED.
C18_CancelledTouchesNoFile ==
  \A p \in Calls :
    /\ CancelledCase(p) =>
         /\ result[p] = err("E_CANCELLED")
         /\ EventsOf(p) = <<Event(p, "prepare", "-"), Event(p, "error", "E_CANCELLED")>>
         /\ fsops[p] = <<>>
    /\ result[p].code = "E_CANCELLED" => out_path[p] = ""

\* C18 witness: a call cancelled at the picker has emitted its event while
\* the old destination is in place.
C18_Witness ==
  \E p \in Calls :
    /\ CancelledCase(p) /\ result[p].code = "E_CANCELLED"
    /\ files["F"] = Old

DecodeFailed(p) == xpc[p] \in {"emitted", "returned"} /\ bytes[p] = NoBytes
SignatureFailed(p) ==
  /\ xpc[p] \in {"emitted", "returned"}
  /\ bytes[p] # NoBytes /\ ~validate_pdf(bytes[p])

\* C19 as stated: a call whose payload cannot be decoded is rejected with
\* the same error code as a call whose payload decodes and fails the
\* signature check.
C19_DecodeFailureIsPayloadInvalid ==
  \A p, q \in Calls :
    (DecodeFailed(p) /\ SignatureFailed(q)) => result[p].code = result[q].code

DigestOnDisk(c) == <<"sha256", c.src, c.len>>
OverwroteExisting(p) ==
  /\ xpc[p] = "emitted" /\ result[p].ok /\ overwrite[p]
  /\ \E i \in DOMAIN fsops[p] : fsops[p][i] = "remove"

\* C20: when a call with overwrite=true that found its destination existing
\* is about to return Ok, the file at the path it returns holds exactly the
\* decoded payload, and the sha256 and bytes_written it returns are the
\* digest and the length of that file.
C20_OverwriteResultMatchesDisk ==
  \A p \in Calls :
    OverwroteExisting(p) =>
      /\ result[p].path = out_path[p]
      /\ files[result[p].path] = Whole(p)
      /\ result[p].sha256 = DigestOnDisk(files[result[p].path])
      /\ result[p].bytes_written = files[result[p].path].len

\* C20 witness: a call is about to return Ok having replaced the content
\* another call had written to the same destination.
C20_Witness ==
  \E p, q \in Calls :
    /\ p # q /\ OverwroteExisting(p)
    /\ xpc[q] = "returned" /\ result[q].ok /\ result[q].path = result[p].path
    /\ files[result[p].path] # Whole(q)

\* In this step the call p, made with overwrite=true against an existing
\* destination, leaves the Write phase with an error.
FailedOverwrite(p) ==
  /\ xpc[p] = "writing" /\ xpc'[p] = "emitted"
  /\ overwrite[p] /\ ~result'[p].ok
  /\ out_path[p] \in DataFiles /\ files[out_path[p]] # Absent
RemovedOld(ops) == \E i \in DOMAIN ops : ops[i] = "remove"

\* C23 as stated: when a call with overwrite=true fails in the Write phase,
\* the destination that existed before still exists with its previous
\* content.
C23_Original ==
  [][\A p \in Calls :
       FailedOverwrite(p) => files'[out_path[p]] = files[out_path[p]]]_vars

\* C23 as amended: when a call with overwrite=true fails in the Write phase,
\* no file other than the destination changes, and the destination keeps
\* its previous content when the creation of the temporary file, the write
\* or the removal of the old file failed, and is absent when the rename
\* failed after the old file was removed; it is never partial.
C23_FailedOverwriteKeepsOrLosesWhole ==
  [][\A p \in Calls :
       FailedOverwrite(p) =>
         IF RemovedOld(fsops'[p])
         THEN files' = [files EXCEPT ![out_path[p]] = Absent]
         ELSE files' = files]_vars

\* C23 witness: a call with overwrite=true has failed at the rename, after
\* removing the old destination, which is now absent.
C23_Witness ==
  \E p \in Calls :
    /\ xpc[p] = "emitted" /\ overwrite[p] /\ ~result[p].ok
    /\ fsops[p] = <<"create_tmp", "write", "remove", "drop_tmp">>
    /\ files[out_path[p]] = Absent

Prepared(p) == \E i \in DOMAIN progress : progress[i] = Event(p, "prepare", "-")

\* C24: a call that has returned, with Ok or with any error, no longer holds
\* the lock; a held lock is eventually free again; and every call waiting for
\* the lock eventually emits its Prepare event.
C24_LockReleasedOnEveryOutcome ==
  /\ [](\A p \in Calls : xpc[p] = "returned" => lock # p)
  /\ (lock # 0) ~> (lock = 0)
  /\ \A p \in Calls : (xpc[p] = "waiting") ~> Prepared(p)

\* C24 witness: every call has returned an error, each with a different
\* code, and the lock is free.
C24_Witness ==
  /\ lock = 0
  /\ \A p \in Calls : xpc[p] = "returned" /\ ~result[p].ok
  /\ \A p, q \in Calls : p # q => result[p].code # result[q].code

(***************************************************************************)
(* Claims about merge, compress and split (SpecOps)                        *)
(***************************************************************************)
Events(e) == { i \in DOMAIN trace : trace[i].e = e }
Spawns(tool, why) == { i \in Events("spawn") : trace[i].tool = tool /\ trace[i].why = why }
Finds(tool) == { i \in Events("find") : trace[i].tool = tool }
WorkCreated(i) == i \in Events("mkdir_work") /\ trace[i].out = "ok"

\* C7 as stated: a merge or compress call with in-memory sources that has
\* returned after creating its work directory has attempted to remove it.
C7_WorkDirRemovedOnEveryExit ==
  (ret.done /\ req.variant = "bytes") =>
    \A i \in DOMAIN trace :
      WorkCreated(i) => \E j \in Events("rm_work") : j > i

\* The output names the same file as the i-th input of the tool.
SameFile(i) == tool_inputs[i].file = req.output.file
Rejected == Events("spawn") = {} /\ (ret.done => ~ret.ok)

\* C8 as stated: whenever the output names the same file as an input, the
\* call is rejected and has started no process.
C8_Original ==
  \A i \in DOMAIN tool_inputs : SameFile(i) => Rejected

\* C8 as amended: whenever the output names the same file as an input, and
\* that file exists or the two paths are spelled the same, the call is
\* rejected and has started no process.
C8_CollisionRejectedBeforeAnyProcess ==
  \A i \in DOMAIN tool_inputs :
    (SameFile(i) /\ (req.output.file \in disk \/ tool_inputs[i].sp = req.output.sp))
    => Rejected

\* C8 witness: a call was rejected, before any process, for an output that
\* is another spelling of an existing input.
C8_Witness ==
  /\ ret = RetErr("collision")
  /\ \E i \in DOMAIN tool_inputs :
       /\ SameFile(i) /\ tool_inputs[i].sp # req.output.sp
       /\ req.output.file \in disk
  /\ Events("spawn") = {}

SourceCount == IF req.variant = "paths" THEN Len(req.paths) ELSE Len(req.names)
OnlyParentDir == \A i \in DOMAIN trace : trace[i].e = "mkdir_parent"

\* C9 as stated: merge with 0 or 1 sources fails with the too-few-sources
\* error, having created no work directory, staged nothing and started no
\* process; its only filesystem effect is the output's parent directory.
C9_Original ==
  (req.kind = "merge" /\ SourceCount < 2) =>
    /\ OnlyParentDir /\ work = "none"
    /\ ret.done => ret = RetErr("too_few")

\* C9 as amended: merge with 0 or 1 sources fails, with the too-few-sources
\* error when the output's parent directory could be ensured and with the
\* directory-creation error when it could not; it has created no work
\* directory, staged nothing and started no process, and its only filesystem
\* effect is the output's parent directory.
C9_TooFewSourcesRejected ==
  (req.kind = "merge" /\ SourceCount < 2) =>
    /\ OnlyParentDir /\ work = "none"
    /\ ret.done =>
         IF \E i \in DOMAIN trace : trace[i].out = "fail"
         THEN ret = RetErr("mkdir_parent")
         ELSE ret = RetErr("too_few")

\* C9 witness: merge of a single in-memory source was rejected after the
\* parent directory was created.
C9_Witness ==
  /\ req.kind = "merge" /\ req.variant = "bytes" /\ SourceCount = 1
  /\ ret = RetErr("too_few")
  /\ trace = <<Ev("mkdir_parent", "-", "-", "ok")>>

Lossy == req.kind = "compress" /\ req.preset # "lossless"
GsFailed ==
  \/ \E i \in Finds("gs") : trace[i].out = "notfound"
  \/ \E i \in Spawns("gs", "verify") : trace[i].out \in {"spawnfail", "nonzero"}
  \/ \E i \in Spawns("gs", "op") : trace[i].out \in {"spawnfail", "nonzero"}
GsExitedZero == \E i \in Spawns("gs", "op") : trace[i].out = "exit0"
QpdfEvents == { i \in DOMAIN trace : trace[i].tool = "qpdf" }

\* C10: in a compress call with a lossy preset that has returned, if
\* Ghostscript was not found, failed its verification run, could not be
\* spawned or exited non-zero, qpdf_lossless was entered exactly once, after
\* it, and the call returned Ok if qpdf's run exited zero; and at any time, if
\* Ghostscript's run exited zero, qpdf was neither looked up nor started.
C10_LossyFallsBackOnce ==
  Lossy =>
    /\ (ret.done /\ GsFailed) =>
         /\ Cardinality(Finds("qpdf")) = 1
         /\ Cardinality(Spawns("qpdf", "op")) <= 1
         /\ \A i \in QpdfEvents, j \in DOMAIN trace : trace[j].tool = "gs" => j < i
         /\ (\E i \in Spawns("qpdf", "op") : trace[i].out = "exit0") => ret = RetOk
    /\ GsExitedZero => QpdfEvents = {} /\ (ret.done => ret = RetOk)

\* C10 witness: Ghostscript was not found, qpdf ran and the call returned Ok.
C10_Witness ==
  /\ Lossy /\ ret = RetOk
  /\ \E i \in Finds("gs") : trace[i].out = "notfound"
  /\ \E i \in Spawns("qpdf", "op") : trace[i].out = "exit0"

Lossless == req.kind = "compress" /\ req.preset = "lossless"
ToolEvents == { i \in DOMAIN trace : trace[i].tool # "-" }
StepFailed(i) ==
  \/ trace[i].out \in {"notfound", "spawnfail", "nonzero"}
  \/ trace[i].why = "verify" /\ trace[i].out # "exit0"

\* C11: a compress call with the lossless preset never looks up, verifies or
\* runs Ghostscript; it looks up, verifies and runs qpdf at most once each,
\* and a failed qpdf step is the last tool step of the call, which returns
\* that failure.
C11_LosslessNeverUsesRaster ==
  Lossless =>
    /\ \A i \in ToolEvents : trace[i].tool = "qpdf"
    /\ Cardinality(Finds("qpdf")) <= 1
    /\ Cardinality(Spawns("qpdf", "verify")) <= 1
    /\ Cardinality(Spawns("qpdf", "op")) <= 1
    /\ \A i \in ToolEvents :
         StepFailed(i) => /\ \A j \in ToolEvents : j <= i
                          /\ ret.done => ~ret.ok

\* C11 witness: a lossless compress call returned the non-zero exit of qpdf,
\* Ghostscript untouched.
C11_Witness ==
  /\ Lossless /\ ret = RetErr("tool_nonzero")
  /\ \E i \in Spawns("qpdf", "op") : trace[i].out = "nonzero"
  /\ \A i \in ToolEvents : trace[i].tool = "qpdf"

Split == req.kind = "split"
SpawnFailed(i) == i \in Events("spawn") /\ trace[i].out \in {"spawnfail", "nonzero"}

\* split_pdf runs the ranges one at a time and in order: the k-th process is
\* the one for the k-th range, it is started only after all earlier ones
\* exited zero, a failed one is the last and fails the call, and the outputs
\* of the earlier ranges stay on disk.
SplitSequential ==
  Split =>
    /\ \A i \in DOMAIN trace : trace[i].e = "spawn" /\ i <= Len(req.ranges)
    /\ \A k \in DOMAIN outputs : outputs[k] = [ord |-> k, token |-> req.ranges[k]]
    /\ \A i \in DOMAIN trace :
         /\ i < Len(trace) => trace[i].out = "exit0"
         /\ SpawnFailed(i) =>
              /\ ret.done /\ ~ret.ok /\ Len(outputs) = i - 1
              /\ \A k \in 1..(i - 1) : SplitNames[k] \in disk

\* C12 as stated: split_pdf runs the ranges one at a time and in order, stops
\* at the first range whose process cannot be spawned or exits non-zero,
\* keeps the earlier outputs, and the error it returns names that range.
C12_SplitStopsAtFirstFailure ==
  /\ SplitSequential
  /\ Split => \A i \in DOMAIN trace : SpawnFailed(i) => ret.range = req.ranges[i]

Verifies == { i \in Events("spawn") : trace[i].why = "verify" }
\* The verification run i was accepted: the tool's operation run follows it,
\* or is the call's next step.
Accepted(i) ==
  IF i < Len(trace) THEN trace[i + 1].tool = trace[i].tool /\ trace[i + 1].why = "op"
  ELSE opc \in {"gs_run", "qpdf_run"}

\* C14 as stated: a verification run, of qpdf or of Ghostscript, is accepted
\* only when it exited zero with the tool's name in its standard output.
C14_VerifyNeedsStatusAndToken ==
  \A i \in Verifies : Accepted(i) => trace[i].out = "exit0"

Spawned == Events("spawn")

\* In this call a process that could not be spawned or exited non-zero is
\* the last process, and fails the call.
FirstFailureEnds ==
  \A i \in Spawned :
    SpawnFailed(i) => /\ \A j \in Spawned : j <= i
                      /\ ret.done => ~ret.ok

\* C16 as stated: in merge, split and lossless compress the first process
\* that cannot be spawned or exits non-zero ends the call with that failure,
\* and no further process is started.
C16_Original ==
  (req.kind \in {"merge", "split"} \/ Lossless) => FirstFailureEnds

\* C16 as amended: in split and lossless compress the first process that
\* cannot be spawned or exits non-zero ends the call with that failure and no
\* further process is started; merge starts qpdf up to three times (the
\* development executable, the packaged sidecar, the packaged executable
\* directly), each after the failure of the one before, starts none after one
\* that exited zero, and returns Ok exactly when one exited zero.
C16_FailureEndsOperation ==
  /\ (Split \/ Lossless) => FirstFailureEnds
  /\ req.kind = "merge" =>
       /\ Cardinality(Spawned) <= 3
       /\ \A i \in Spawned :
            IF trace[i].out = "exit0" THEN \A j \in Spawned : j <= i
            ELSE ret.done => (~ret.ok \/ \E j \in Spawned : j > i)
       /\ ret.done => (ret.ok <=> \E i \in Spawned : trace[i].out = "exit0")

\* C16 witness: merge returned Ok after the development executable and the
\* sidecar both failed and the direct start exited zero.
C16_Witness ==
  /\ req.kind = "merge" /\ ret = RetOk
  /\ [i \in DOMAIN trace |-> trace[i].out] \in
       { <<"ok", "nonzero", "spawnfail", "exit0">>, <<"ok", "spawnfail", "nonzero", "exit0">> }

\* C17 as stated: every process of a merge, compress or split call is
\* started after the output's parent directory (for split, the output
\* directory) was created successfully in that call, and none is started
\* when the creation failed.
C17_ParentDirBeforeAnyProcess ==
  /\ \A i \in Spawned : \E j \in 1..(i - 1) : trace[j] = Ev("mkdir_parent", "-", "-", "ok")
  /\ (\E j \in DOMAIN trace : trace[j] = Ev("mkdir_parent", "-", "-", "fail")) => Spawned = {}

Runs == { i \in Spawned : trace[i].why = "op" }

\* C22 as stated: in a merge, split or compress call every operation run of
\* a tool comes after a verification run of that tool that succeeded, and no
\* operation run of a tool follows a verification run of it that failed.
C22_VerifiedBeforeRun ==
  /\ \A i \in Runs :
       \E j \in Verifies : j < i /\ trace[j].tool = trace[i].tool /\ success(trace[j].out)
  /\ \A j \in Verifies :
       ~success(trace[j].out) => \A i \in Runs : i > j => trace[i].tool # trace[j].tool

(***************************************************************************)
(* Claims about find_gs and find_qpdf (SpecLocate)                         *)
(***************************************************************************)
Looked == gs_found # NotLooked
RootsOf(l) == IF l.res_ok THEN {l.dev, l.res} ELSE {l.dev}
CandidatesOf(l) ==
  UNION { {r.flat} \cup { r.entries[k] : k \in DOMAIN r.entries } : r \in RootsOf(l) }
Complete(c) == c.exe /\ c.lib /\ c.resource
ReturnedCandidate ==
  LET r == IF gs_found.root = "dev" THEN gs_layout.dev ELSE gs_layout.res
  IN IF gs_found.at = 0 THEN r.flat ELSE r.entries[gs_found.at]

\* C13: the candidate find_gs returns has its executable and both its lib
\* and Resource directories; a candidate whose executable exists without
\* them is passed over, so that find_gs returns a candidate exactly when some
\* candidate of some root is complete, and None otherwise.
C13_IncompleteCandidateSkipped ==
  Looked =>
    /\ gs_found.found => Complete(ReturnedCandidate)
    /\ gs_found.found <=> \E c \in CandidatesOf(gs_layout) : Complete(c)

\* C13 witness: the development root has the executable but no Resource
\* directory, and find_gs returned the candidate of the resource root.
C13_Witness ==
  /\ Looked /\ gs_found.found /\ gs_found.root = "res"
  /\ gs_layout.dev.flat.exe /\ gs_layout.dev.flat.lib /\ ~gs_layout.dev.flat.resource

\* What makes a candidate acceptable, read off the installation.
GsAcceptable(r, at) ==
  IF at = 0 THEN Complete(r.flat) ELSE r.entries[at].dir /\ Complete(r.entries[at])
GsPlaces(r) == 0..Len(r.entries)
QpdfLooked == qpdf_found # QpdfNotLooked
QpdfAcceptable(r, layout, at) ==
  IF layout = "direct" THEN r.direct[at]
  ELSE r.entries[at].dir /\ r.entries[at].named /\ r.entries[at].exe
QpdfPlaces(r) ==
  { <<"direct", i>> : i \in DirectPaths } \cup { <<"scan", k>> : k \in DOMAIN r.entries }
\* The place x comes before the place y in the search of one root.
QpdfBefore(x, y) ==
  \/ x[1] = "direct" /\ y[1] = "scan"
  \/ x[1] = y[1] /\ x[2] < y[2]

\* C21: what find_gs and find_qpdf return is an acceptable candidate with no
\* acceptable candidate before it: none under the development root when it
\* lies under the resource root, and in its own root none at a fixed path
\* when it is a scanned subdirectory, none at an earlier fixed path, none at
\* an earlier entry; and they return None only when no candidate of any root
\* searched is acceptable.
C21_FirstAcceptableInFixedOrder ==
  /\ Looked =>
       LET l == gs_layout
           f == gs_found
           own == IF f.root = "dev" THEN l.dev ELSE l.res
       IN IF f.found
          THEN /\ GsAcceptable(own, f.at)
               /\ \A at \in GsPlaces(own) : at < f.at => ~GsAcceptable(own, at)
               /\ f.root = "res" => \A at \in GsPlaces(l.dev) : ~GsAcceptable(l.dev, at)
          ELSE \A r \in RootsOf(l) : \A at \in GsPlaces(r) : ~GsAcceptable(r, at)
  /\ QpdfLooked =>
       LET l == qpdf_layout
           f == qpdf_found
           own == IF f.root = "dev" THEN l.dev ELSE l.res
       IN IF f.found
          THEN /\ QpdfAcceptable(own, f.layout, f.at)
               /\ \A x \in QpdfPlaces(own) :
                    QpdfBefore(x, <<f.layout, f.at>>) => ~QpdfAcceptable(own, x[1], x[2])
               /\ f.root = "res" =>
                    \A x \in QpdfPlaces(l.dev) : ~QpdfAcceptable(l.dev, x[1], x[2])
          ELSE \A r \in RootsOf(l) : \A x \in QpdfPlaces(r) : ~QpdfAcceptable(r, x[1], x[2])

\* C21 witness: find_qpdf returned a scanned subdirectory of the resource
\* root, the development root holding only a subdirectory without qpdf.exe.
C21_Witness ==
  /\ QpdfLooked /\ qpdf_found = QpdfSome("res", "scan", 1)
  /\ qpdf_layout.dev.entries = <<QEntry(TRUE, TRUE, FALSE)>>

(***************************************************************************)
(* Claims about concurrent in-memory calls (SpecStaging)                   *)
(***************************************************************************)
Using(c) == stg[c].pc \in {"staged", "ran"}

\* C15 as stated: two in-memory calls of the same kind that are both between
\* staging and removal never use the same work directory.
C15_DistinctWorkDirs ==
  \A p, q \in Calls :
    (p # q /\ Using(p) /\ Using(q) /\ stg[p].kind = stg[q].kind)
    => DirOf(p) # DirOf(q)

====
